---- MODULE Spec2Model ----
(***************************************************************************)
(* Model of the augmentation operators of DeepLearnUtils (augments.py):    *)
(* the augment wrapper, the checkSegmentMargin retry wrapper and the       *)
(* samplers transpose, flip, randPatch, shift and zoom.                    *)
(*                                                                         *)
(* Arrays are 2-D float64 arrays, a sequence of rows.  The stored integer v *)
(* stands for the value v/Unit.  Unit is twice a denominator common to the *)
(* inputs (0, 1/2, 1) and to every value the quadratic spline of zoom      *)
(* makes of them in exact arithmetic, so an exact value is an even v.  The *)
(* spline is computed in float64 with an irrational filter pole, so every  *)
(* pixel zoom returns is a rounding error away from the exact value, each  *)
(* pixel its own way, depending on the build.  The code tells such floats  *)
(* apart in one place, the truncating cast astype(np.int32), and there     *)
(* only at a whole number: 1 - error casts to 0.  So an even v stands for  *)
(* the floats a rounding error around v/Unit that truncate as v/Unit does, *)
(* and an odd v, one step nearer to zero than a whole number, for the      *)
(* float a rounding error short of that number.  Which of the two a whole  *)
(* pixel of a zoom is, is a choice made for every pixel by itself.         *)
(* Probabilities and zoom factors are in percent.  Python indices are      *)
(* 0-based; Px converts.                                                   *)
(***************************************************************************)
EXTENDS Integers, Sequences, FiniteSets, TLC

\* ---------------------------------------------------------------- bounds
Dim == 3
MaxArgs == 2
MaxCount == 2

\* --------------------------------------------------------------- helpers
Max(a, b) == IF a >= b THEN a ELSE b
Min(a, b) == IF a <= b THEN a ELSE b
\* np.clip(a, lo, hi) = minimum(maximum(a, lo), hi)
Clip(a, lo, hi) == Min(Max(a, lo), hi)
\* np.random.randint(lo, hi): the integers lo <= n < hi
RandInt(lo, hi) == lo .. (hi - 1)

Height(im) == Len(im)
Width(im) == IF Len(im) = 0 THEN 0 ELSE Len(im[1])
Px(im, i, j) == im[i + 1][j + 1]
\* the array of h rows and w columns with F(i, j) at [i, j], its pixels computed
\* when it is made
MkArray(h, w, F(_, _)) ==
    SubSeq([i \in 1..h |-> SubSeq([j \in 1..w |-> F(i - 1, j - 1)], 1, w)], 1, h)

\* ------------------------------- the quadratic spline of scipy.ndimage.zoom
\* the sum of f[0] .. f[n-1]
Sum(f, n) ==
    LET s[k \in 0..n] == IF k = 0 THEN 0 ELSE s[k - 1] + f[k - 1]
    IN  s[n]
Abs(a) == IF a < 0 THEN 0 - a ELSE a
Square(a) == a * a
RECURSIVE Gcd(_, _)
Gcd(a, b) == IF b = 0 THEN a ELSE Gcd(b, a % b)
Lcm(a, b) == (a * b) \div Gcd(a, b)
\* t[k] where the table t has it, d otherwise
Lookup(t, k, d) == IF k \in DOMAIN t THEN t[k] ELSE d
\* the index a mirror boundary gives index j of an axis of n pixels
Mirror(j, n) ==
    IF n = 1 THEN 0 ELSE IF j < 0 THEN 0 - j ELSE IF j > n - 1 THEN 2 * (n - 1) - j ELSE j
\* 8 times the matrix taking spline coefficients to samples: a sample is
\* (c[k-1] + 6 c[k] + c[k+1]) / 8, the coefficients mirrored at the ends
FilterMatrix(n) ==
    MkArray(n, n, LAMBDA k, a :
        (IF a = k THEN 6 ELSE 0) + (IF Mirror(k - 1, n) = a THEN 1 ELSE 0)
                                 + (IF Mirror(k + 1, n) = a THEN 1 ELSE 0))
\* the indices 0 .. n-1 but for k
Skip(k, n) == [x \in 1..(n - 1) |-> IF x - 1 < k THEN x - 1 ELSE x]
\* the determinant of the rows and columns of m the sequences name
RECURSIVE Det(_, _, _)
Det(m, rows, cols) ==
    IF Len(rows) = 0 THEN 1
    ELSE Sum([c \in 0..(Len(cols) - 1) |->
                 (IF c % 2 = 0 THEN 1 ELSE -1) * Px(m, rows[1], cols[c + 1])
                     * Det(m, Tail(rows), [x \in 1..(Len(cols) - 1) |->
                                              IF x < c + 1 THEN cols[x] ELSE cols[x + 1]])],
             Len(cols))
\* the determinant of FilterMatrix(n)
FilterDet(n) == Det(FilterMatrix(n), Skip(n, n + 1), Skip(n, n + 1))
\* the adjugate of the matrix m of n rows: its inverse times its determinant
AdjugateOf(m, n) ==
    MkArray(n, n, LAMBDA k, a :
        (IF (k + a) % 2 = 0 THEN 1 ELSE -1) * Det(m, Skip(a, n), Skip(k, n)))
Adjugate(n) == AdjugateOf(FilterMatrix(n), n)
\* int(round(n * z)) of scipy.ndimage.zoom, z in percent
ZoomedSize(n, z) == (n * z + 50) \div 100
\* The order-2 spline interpolation of scipy.ndimage.zoom from n to nn pixels:
\* output i is the spline through the n samples evaluated at the coordinate
\* x = i * (n - 1) / s, s = max(1, nn - 1).  With k0 the index nearest to x and
\* t = x - k0 = tn / s, the B-spline weighs the coefficients at k0 + d,
\* d = -1, 0, 1, by (1/2 - t)^2 / 2, 3/4 - t^2, (1/2 + t)^2 / 2: 8 s^2 times
\* these are the numerators below.
SplineK0(i, n, s) == (2 * i * (n - 1) + s) \div (2 * s)
SplineTn(i, n, s) == i * (n - 1) - SplineK0(i, n, s) * s
SplineBnum(tn, s, d) ==
    CASE d = -1 -> Square(s - 2 * tn)
      [] d = 0 -> 6 * s * s - 8 * tn * tn
      [] d = 1 -> Square(s + 2 * tn)
\* the weight of sample a in output i, times s^2 * FilterDet(n)
SplineNum(n, nn, s, adj) ==
    MkArray(nn, n, LAMBDA i, a :
        Sum([d \in 0..2 |->
                SplineBnum(SplineTn(i, n, s), s, d - 1)
                    * Px(adj, Mirror(SplineK0(i, n, s) + d - 1, n), a)], 3))
\* the greatest common divisor of full and the numbers of the array num
GcdOf(num, full) ==
    LET g[c \in 0..(Height(num) * Width(num))] ==
            IF c = 0 THEN full
            ELSE Gcd(g[c - 1], Abs(Px(num, (c - 1) \div Width(num), (c - 1) % Width(num))))
    IN  g[Height(num) * Width(num)]
\* the fractions num / full in lowest common terms
Reduced(num, full, common) ==
    [den |-> full \div common,
     w |-> MkArray(Height(num), Width(num), LAMBDA i, a : Px(num, i, a) \div common)]
ReducedWeights(num, full) == Reduced(num, full, GcdOf(num, full))
\* the weights: output i is (sum over a of w[i][a] * sample[a]) / den
SplineWeights(n, nn) ==
    ReducedWeights(SplineNum(n, nn, Max(1, nn - 1), Adjugate(n)),
                   Square(Max(1, nn - 1)) * FilterDet(n))

\* the zoom factors drawn, in percent
ZoomPercents == {80, 85, 100, 115, 120}
\* the sizes an axis of Dim pixels is zoomed to
ZoomedSizes == {ZoomedSize(Dim, z) : z \in ZoomPercents}
\* the weights of the zooms of an axis of Dim pixels, tabulated once (@@ makes
\* the function a table of values)
SplineTable == [x \in {Dim} \X ZoomedSizes |-> SplineWeights(x[1], x[2])] @@ <<>>
ZoomWeights(n, nn) == Lookup(SplineTable, <<n, nn>>, SplineWeights(n, nn))
\* a denominator of every weight of a zoom of an axis of Dim pixels
RECURSIVE LcmOfDens(_, _)
LcmOfDens(t, keys) ==
    IF keys = {} THEN 1
    ELSE Lcm(t[CHOOSE k \in keys : TRUE].den, LcmOfDens(t, keys \ {CHOOSE k \in keys : TRUE}))
PixelDen == LcmOfDens(SplineTable, DOMAIN SplineTable)
\* the stored number of the value 1, and of the value 1/2
Unit == 4 * Square(PixelDen)
Half == Unit \div 2

\* truncation of v / u towards zero
TruncDiv(v, u) == IF v >= 0 THEN v \div u ELSE 0 - ((0 - v) \div u)
\* arr.astype(np.int32): truncation of the value v/Unit towards zero
AsInt32(im) == MkArray(Height(im), Width(im), LAMBDA i, j : TruncDiv(Px(im, i, j), Unit))

MaxPositive(im) == \E i \in 0..(Height(im) - 1), j \in 0..(Width(im) - 1) : Px(im, i, j) > 0
\* im[ry:ry+ph, rx:rx+pw] for ry, rx >= 0 (a slice is clamped to the array)
Window(im, ry, rx, ph, pw) ==
    MkArray(Max(0, Min(Height(im), ry + ph) - Min(Height(im), ry)),
            Max(0, Min(Width(im), rx + pw) - Min(Width(im), rx)),
            LAMBDA i, j : Px(im, ry + i, rx + j))

\* ------------------------------------- trainutils (imported by augments.py)
\* randChoice(prob): random.random() <= prob, the draw r being in [0, 1)
RandChoice(r, prob) == r <= prob
\* zeroMargins(img, margin): no nonzero value within margin pixels of an edge
ZeroMargins(img, margin) ==
    \A i \in 0..(Height(img) - 1), j \in 0..(Width(img) - 1) :
        (i < margin \/ i >= Height(img) - margin \/ j < margin \/ j >= Width(img) - margin)
            => Px(img, i, j) = 0
\* copypasteArrays, one dimension: the source and destination slices
CopyPaste1D(ss, ds, sc, dc, dim) ==
    LET d1 == Clip(dim \div 2, 0, Min(sc, dc))
        d2 == Clip(dim \div 2 + 1, 0, Min(ss - sc, ds - dc))
    IN  [src |-> sc - d1, dst |-> dc - d1, len |-> d1 + d2]
\* dest[destslices] = src[srcslices] on a dest filled with zeros
PasteInto(im, dh, dw, rs, cs) ==
    MkArray(dh, dw, LAMBDA i, j :
        IF /\ i >= rs.dst /\ i < rs.dst + rs.len
           /\ j >= cs.dst /\ j < cs.dst + cs.len
        THEN Px(im, rs.src + (i - rs.dst), cs.src + (j - cs.dst))
        ELSE 0)
\* resizeCenter(img, rh, rw): crop or zero-pad about the centre
ResizeCenter(img, rh, rw) ==
    PasteInto(img, rh, rw,
              CopyPaste1D(Height(img), rh, Height(img) \div 2, rh \div 2, rh),
              CopyPaste1D(Width(img), rw, Width(img) \div 2, rw \div 2, rw))

\* ------------------------------------------------------------ transforms
\* the callable a sampler returns: its kind and the values of its closure.
\* out, of _zoom, is what its float64 computation gives for each array of the
\* call: the same array in, the same floats out
OpWith(kind, p, q, r, s, out) ==
    [kind |-> kind, p |-> p, q |-> q, r |-> r, s |-> s, out |-> out]
Op(kind, p, q, r, s) == OpWith(kind, p, q, r, s, <<>>)
\* the fallback lambda arr: arr of checkSegmentMargin
Identity == Op("identity", 0, 0, 0, 0)
NoOp == Op("none", 0, 0, 0, 0)

\* shift._shift
ShiftArray(im, shiftx, shifty) ==
    LET h == Height(im)
        w == Width(im)
    IN  PasteInto(im, h, w,
                  CopyPaste1D(h, h, h \div 2 + shiftx, h \div 2, h),
                  CopyPaste1D(w, w, w \div 2 + shifty, w \div 2, w))

\* the buffers after shift._shift ran: im is the caller's array, dest the
\* array made by np.zeros_like(im), written by dest[destslices] = im[srcslices]
\* and returned
ShiftBuffersInPlace(im, shiftx, shifty) ==
    LET h == Height(im)
        w == Width(im)
        rs == CopyPaste1D(h, h, h \div 2 + shiftx, h \div 2, h)
        cs == CopyPaste1D(w, w, w \div 2 + shifty, w \div 2, w)
        written == MkArray(h, w, LAMBDA i, j :
                       IF /\ i >= rs.dst /\ i < rs.dst + rs.len
                          /\ j >= cs.dst /\ j < cs.dst + cs.len
                       THEN Px(im, rs.src + (i - rs.dst), cs.src + (j - cs.dst))
                       ELSE Px(im, i, j))
    IN  [im |-> written, dest |-> written]
ShiftBuffers(im, shiftx, shifty) ==
    [im |-> im, dest |-> ShiftArray(im, shiftx, shifty)]

\* the arrays the functions are called with
\* a mask: all zero but for at most one pixel of value 1/2 or 1
OnePixel(pi, pj, v) == MkArray(Dim, Dim, LAMBDA i, j : IF i = pi /\ j = pj THEN v ELSE 0)
\* a mask of two pixels of value 1, in opposite corners
Corners ==
    MkArray(Dim, Dim, LAMBDA i, j : IF i = j /\ (i = 0 \/ i = Dim - 1) THEN Unit ELSE 0)
\* the rows and columns a mask has its pixel in: the two ends and one inside
MaskCoords == {0, 1, Dim - 1}
Masks ==
    {OnePixel(pi, pj, v * Half) : pi \in MaskCoords, pj \in MaskCoords, v \in 0..2}
        \cup {Corners}
\* an intensity image of the values 1/2, 3/2 and 5/2, no two rows or columns
\* alike
Ramp == MkArray(Dim, Dim, LAMBDA i, j : (2 * ((i + 2 * j) % 3) + 1) * Half)
\* (zx, zy) of zoom for zoomrange = 0.2: both in (0.75, 1.25] and, sharing the
\* draw z, less than 0.1 apart
ZoomFactors ==
    {z \in ZoomPercents \X ZoomPercents :
        z[1] - z[2] < 10 /\ z[2] - z[1] < 10}

\* the spline along the rows: weights sx
SplineRows(im, sx) ==
    MkArray(Height(sx.w), Width(im), LAMBDA i, b :
        Sum([a \in 0..(Height(im) - 1) |-> Px(sx.w, i, a) * Px(im, a, b)], Height(im))
            \div sx.den)
\* the spline along the columns: weights sy
SplineCols(im, sy) ==
    MkArray(Height(im), Height(sy.w), LAMBDA i, j :
        Sum([b \in 0..(Width(im) - 1) |-> Px(sy.w, j, b) * Px(im, i, b)], Width(im))
            \div sy.den)
\* zoom._zoom in exact arithmetic: scipy.ndimage.zoom(im, (zx, zy), order=2),
\* the spline applied along the rows and then along the columns, and
\* resizeCenter to im's shape
ZoomExact(im, zx, zy) ==
    ResizeCenter(
        SplineCols(SplineRows(im, ZoomWeights(Height(im), ZoomedSize(Height(im), zx))),
                   ZoomWeights(Width(im), ZoomedSize(Width(im), zy))),
        Height(im), Width(im))
\* the pixels whose exact value is a whole number other than 0: where the
\* rounding error of the float decides what the cast to int32 gives
WholePixels(ex) ==
    {x \in (0..(Height(ex) - 1)) \X (0..(Width(ex) - 1)) :
        Px(ex, x[1], x[2]) # 0 /\ Px(ex, x[1], x[2]) % Unit = 0}
\* the float64 array for the exact array ex whose pixels in short fell a
\* rounding error short of their whole value
FallShort(ex, short) ==
    MkArray(Height(ex), Width(ex), LAMBDA i, j :
        IF <<i, j>> \in short
        THEN Px(ex, i, j) - (IF Px(ex, i, j) > 0 THEN 1 ELSE -1)
        ELSE Px(ex, i, j))
\* the float64 arrays a build can compute for the exact array ex: every whole
\* pixel falls short or does not, independently of the others; a pixel whose
\* exact value is 0 or not a whole number truncates the same whichever way it
\* is rounded
FloatsOf(ex) == {FallShort(ex, short) : short \in SUBSET WholePixels(ex)}
\* FloatsOf(ZoomExact) of the arrays and factors drawn, tabulated once
ZoomTable ==
    [x \in (Masks \cup {Ramp}) \X ZoomFactors |->
        FloatsOf(ZoomExact(x[1], x[2][1], x[2][2]))] @@ <<>>
\* the float64 arrays zoom._zoom(im) can be
ZoomFloats(im, zx, zy) ==
    Lookup(ZoomTable, <<im, <<zx, zy>>>>, FloatsOf(ZoomExact(im, zx, zy)))
\* what _zoom can compute for the arrays ims: one of its floats for each
RECURSIVE ZoomOuts(_, _, _)
ZoomOuts(ims, zx, zy) ==
    IF ims = {} THEN {<<>>}
    ELSE {((CHOOSE im \in ims : TRUE) :> f) @@ rest :
            f \in ZoomFloats(CHOOSE im \in ims : TRUE, zx, zy),
            rest \in ZoomOuts(ims \ {CHOOSE im \in ims : TRUE}, zx, zy)}
\* the closures _zoom the sampler can return for these factors and the arrays
\* of the call
ZoomOps(as, zx, zy) ==
    {OpWith("zoom", zx, zy, 0, 0, out) : out \in ZoomOuts({as[k] : k \in 1..Len(as)}, zx, zy)}
\* zoom._zoom(im) for the closure o
ZoomArray(o, im) == o.out[im]

\* partial(np.swapaxes, axis1=0, axis2=1)
SwapAxes(im) == MkArray(Width(im), Height(im), LAMBDA i, j : Px(im, j, i))
FlipLR(im) == MkArray(Height(im), Width(im), LAMBDA i, j : Px(im, i, Width(im) - 1 - j))
FlipUD(im) == MkArray(Height(im), Width(im), LAMBDA i, j : Px(im, Height(im) - 1 - i, j))

\* op(im) for the callable a sampler returned
ApplyOp(o, im) ==
    CASE o.kind = "identity" -> im
      [] o.kind = "swapaxes" -> SwapAxes(im)
      [] o.kind = "fliplr" -> FlipLR(im)
      [] o.kind = "flipud" -> FlipUD(im)
      [] o.kind = "shift" -> ShiftArray(im, o.p, o.q)
      [] o.kind = "zoom" -> ZoomArray(o, im)
      [] o.kind = "patch" -> Window(im, o.p, o.q, o.r, o.s)

\* what the caller's array im holds after op(im) ran: _shift writes only to
\* the array it made; np.swapaxes, np.fliplr, np.flipud and slicing return
\* views and write nothing; _zoom writes to the arrays scipy.ndimage.zoom and
\* resizeCenter make; the fallback returns its argument
InputAfter(o, im) ==
    CASE o.kind = "shift" -> ShiftBuffers(im, o.p, o.q).im
      [] OTHER -> im

\* ------------------------------------------------- decorators' decisions
Plain == {"transpose", "flip"}
Wrapped == {"shift", "zoom"}
Fns == Plain \cup Wrapped \cup {"randPatch"}

\* the prob argument of the @augment(...) decorating each function, in percent
DefaultProb(f) == IF f = "randPatch" THEN 100 ELSE 50
\* the default the documentation appended by augment states: "(default: 0.5)"
DocumentedDefaultProb == 50

\* _prob = kwargs.pop('prob', prob), prob being the cell of augment's closure
EffProb(cell, probkw) == IF probkw.has THEN probkw.val ELSE cell
\* return args, when the augment is not applied
SkipResultNone(as) == <<>>
SkipResult(as) == as
\* _prob < 1.0 and not trainutils.randChoice(_prob)
SkipAugment(p, r) == p < 100 /\ ~RandChoice(r, p)
\* list(_applyIndices or range(len(args))): None and an empty list are falsy
Indices(idxkw, n) == IF idxkw.has /\ idxkw.val # {} THEN idxkw.val ELSE 0..(n - 1)
\* tuple((op(im) if i in indices else im) for i, im in enumerate(args))
AugResultReversed(o, indices, as) ==
    [k \in 1..Len(as) |->
        IF (k - 1) \in indices THEN ApplyOp(o, as[Len(as) + 1 - k]) ELSE as[Len(as) + 1 - k]]
AugResult(o, indices, as) ==
    [k \in 1..Len(as) |-> IF (k - 1) \in indices THEN ApplyOp(o, as[k]) ELSE as[k]]

\* margin = max(1, kwargs.pop('margin', 5))
EffMargin(m) == Max(1, m)
\* maxCount = max(1, kwargs.pop('maxCount', 5))
EffMaxCountRaw(mc) == mc
EffMaxCount(mc) == Max(1, mc)
\* while maxCount > 0 and not acceptedOutput
LoopCondNoStop(rem, acc) == rem > 0
LoopCond(rem, acc) == rem > 0 /\ ~acc
\* the margin check of one sampled transform
Accepts(o, as, nzi, m) ==
    IF nzi = -1 THEN TRUE ELSE ZeroMargins(AsInt32(ApplyOp(o, as[nzi + 1])), m)
\* if not acceptedOutput: op = lambda arr: arr
CheckResultKeep(o, acc) == o
CheckResult(o, acc) == IF ~acc THEN Identity ELSE o

\* arrs[nonzeroIndex], -1 being the last array
TestIm(as, nzi) == IF nzi = -1 THEN as[Len(as)] ELSE as[nzi + 1]
\* while count >= 0 and not acceptedVals
PatchLoopCond(cnt, acc) == cnt >= 0 /\ ~acc
\* np.random.randint(0, h - ph) raises ValueError when h - ph <= 0
PatchDrawRaises(testim, ph, pw) == Height(testim) - ph <= 0 \/ Width(testim) - pw <= 0
\* acceptedVals = testim[ry:ry+ph, rx:rx+pw].max() > 0
PatchAccepts(testim, ry, rx, ph, pw) == MaxPositive(Window(testim, ry, rx, ph, pw))

\* the transforms the undecorated sampler can return for these arguments
SampleOps(f, as) ==
    CASE f = "transpose" -> {Op("swapaxes", 0, 0, 0, 0)}
      [] f = "flip" -> {Op("fliplr", 0, 0, 0, 0), Op("flipud", 0, 0, 0, 0)}
      [] f = "shift" ->
            LET x == Height(as[1])
                y == Width(as[1])
            IN  {Op("shift", sx, sy, 0, 0) :
                    sx \in RandInt((0 - x) \div 2, x \div 2),
                    sy \in RandInt((0 - y) \div 2, y \div 2)}
      [] f = "zoom" ->
            UNION {ZoomOps(as, z[1], z[2]) : z \in ZoomFactors}

\* ---------------------------------------------------------------- inputs
ArgLists ==
    UNION {{[k \in 1..n |-> IF k = at THEN m ELSE Ramp] : m \in Masks, at \in 1..n} :
            n \in 1..MaxArgs}
\* the draws of random.random(), in percent
RandVals == {0, 50, 99}

ProbKw == {[has |-> FALSE, val |-> 0]} \cup {[has |-> TRUE, val |-> p] : p \in {50, 100}}
\* the applyIndices keyword: absent (None), an empty list or one index
IdxKw(n) ==
    {[has |-> FALSE, val |-> {}]} \cup
    {[has |-> TRUE, val |-> s] : s \in {{}} \cup {{i} : i \in 0..(n - 1)}}
\* the maxCount keyword: negative, zero or the largest count
CountKw == {-1, 0, MaxCount}
\* the other keywords of a call of f with n arrays
KwArgs(f, n) ==
    {[prob |-> pk, maxCount |-> mc, margin |-> mg,
      nonzeroIndex |-> nzi, ph |-> ph, pw |-> pw] :
        pk \in ProbKw,
        mc \in (IF f \in Plain THEN {0} ELSE CountKw),
        mg \in (IF f \in Wrapped THEN {0, 1, 2} ELSE {0}),
        nzi \in (IF f \in Plain THEN {-1} ELSE (-1)..(n - 1)),
        ph \in (IF f = "randPatch" THEN (Dim - 1)..Dim ELSE {0}),
        pw \in (IF f = "randPatch" THEN (Dim - 1)..Dim ELSE {0})}

\* ----------------------------------------------------------------- state
\* fn, args, kw: the call; pc: the position in it; eprob: _prob; applyIndices:
\* _applyIndices, an input drawn where it is first used; funcCalls: the calls of
\* func by augment; samples: the calls of the sampler by _check; passes: the
\* samples that passed the margin check; drawsAfterAccept: the samples drawn
\* after a pass; remaining: maxCount of _check; emargin: margin of _check;
\* accepted: acceptedOutput / acceptedVals; count, ry, rx: of randPatch; op: the
\* current transform; result: the returned tuple; mem: what the caller's
\* arrays hold now, args being what they held when the call was made;
\* closureProb: the cell prob of the closure augment made for fn
VARIABLES fn, args, kw, mem, closureProb, pc, eprob, applied, applyIndices, funcCalls, samples, passes,
          drawsAfterAccept, remaining, emargin, accepted, count, ry, rx, op, result
vars == <<fn, args, kw, mem, closureProb, pc, eprob, applied, applyIndices, funcCalls, samples, passes,
          drawsAfterAccept, remaining, emargin, accepted, count, ry, rx, op, result>>

Init ==
    /\ fn \in Fns
    /\ args \in ArgLists
    /\ kw \in KwArgs(fn, Len(args))
    /\ mem = args
    /\ closureProb = DefaultProb(fn)
    /\ pc = "call"
    /\ eprob = 0
    /\ applied = FALSE
    /\ applyIndices = [has |-> FALSE, val |-> {}]
    /\ funcCalls = 0
    /\ samples = 0
    /\ passes = 0
    /\ drawsAfterAccept = 0
    /\ remaining = 0
    /\ emargin = 0
    /\ accepted = FALSE
    /\ count = 0
    /\ ry = 0
    /\ rx = 0
    /\ op = NoOp
    /\ result = <<>>

\* augment._func up to the decision to apply
Choose ==
    /\ pc = "call"
    /\ eprob' = EffProb(closureProb, kw.prob)
    /\ \E r \in RandVals :
          IF SkipAugment(eprob', r)
          THEN /\ applied' = FALSE
               /\ result' = SkipResult(args)
               /\ pc' = "done"
          ELSE /\ applied' = TRUE
               /\ result' = result
               /\ pc' = "func"
    /\ UNCHANGED <<fn, args, kw, mem, closureProb, applyIndices, funcCalls, samples, passes, drawsAfterAccept,
                   remaining, emargin, accepted, count, ry, rx, op>>

\* op = func(*args, **kwargs) for transpose and flip
PlainSampler ==
    /\ pc = "func"
    /\ fn \in Plain
    /\ funcCalls' = funcCalls + 1
    /\ op' \in SampleOps(fn, args)
    /\ pc' = "apply"
    /\ UNCHANGED <<fn, args, kw, mem, closureProb, applyIndices, eprob, applied, samples, passes, drawsAfterAccept,
                   remaining, emargin, accepted, count, ry, rx, result>>

\* op = func(*args, **kwargs) entering checkSegmentMargin._check
CheckEnter ==
    /\ pc = "func"
    /\ fn \in Wrapped
    /\ funcCalls' = funcCalls + 1
    /\ emargin' = EffMargin(kw.margin)
    /\ remaining' = EffMaxCount(kw.maxCount)
    /\ accepted' = FALSE
    /\ pc' = "loop"
    /\ UNCHANGED <<fn, args, kw, mem, closureProb, applyIndices, eprob, applied, samples, passes, drawsAfterAccept,
                   count, ry, rx, op, result>>

\* one pass of the while loop of _check
CheckIter ==
    /\ pc = "loop"
    /\ LoopCond(remaining, accepted)
    /\ \E o \in SampleOps(fn, args) :
          /\ op' = o
          /\ accepted' = Accepts(o, args, kw.nonzeroIndex, emargin)
          /\ mem' = IF kw.nonzeroIndex = -1
                    THEN mem
                    ELSE [mem EXCEPT ![kw.nonzeroIndex + 1] = InputAfter(o, @)]
    /\ samples' = samples + 1
    /\ remaining' = remaining - 1
    /\ passes' = passes + (IF accepted' THEN 1 ELSE 0)
    /\ drawsAfterAccept' = drawsAfterAccept + (IF accepted THEN 1 ELSE 0)
    /\ UNCHANGED <<fn, args, kw, closureProb, applyIndices, pc, eprob, applied, funcCalls, emargin, count,
                   ry, rx, result>>

\* the exit of the loop of _check and its return
CheckExit ==
    /\ pc = "loop"
    /\ ~LoopCond(remaining, accepted)
    /\ op' = CheckResult(op, accepted)
    /\ pc' = "apply"
    /\ UNCHANGED <<fn, args, kw, mem, closureProb, applyIndices, eprob, applied, funcCalls, samples, passes,
                   drawsAfterAccept, remaining, emargin, accepted, count, ry, rx, result>>

\* op = func(*args, **kwargs) entering randPatch
PatchEnter ==
    /\ pc = "func"
    /\ fn = "randPatch"
    /\ funcCalls' = funcCalls + 1
    /\ ry' = 0
    /\ rx' = 0
    /\ IF kw.nonzeroIndex # -1
       THEN /\ accepted' = FALSE
            /\ count' = kw.maxCount
            /\ op' = op
            /\ pc' = "patchloop"
       ELSE /\ accepted' = accepted
            /\ count' = count
            /\ op' = Op("patch", 0, 0, kw.ph, kw.pw)
            /\ pc' = "apply"
    /\ UNCHANGED <<fn, args, kw, mem, closureProb, applyIndices, eprob, applied, samples, passes, drawsAfterAccept,
                   remaining, emargin, result>>

\* one pass of the while loop of randPatch
PatchIter ==
    /\ pc = "patchloop"
    /\ PatchLoopCond(count, accepted)
    /\ LET testim == TestIm(args, kw.nonzeroIndex)
       IN  IF PatchDrawRaises(testim, kw.ph, kw.pw)
           THEN /\ pc' = "raised"
                /\ UNCHANGED <<ry, rx, accepted, count>>
           ELSE /\ \E y \in RandInt(0, Height(testim) - kw.ph),
                      x \in RandInt(0, Width(testim) - kw.pw) :
                      /\ ry' = y
                      /\ rx' = x
                      /\ accepted' = PatchAccepts(testim, y, x, kw.ph, kw.pw)
                /\ count' = count - 1
                /\ pc' = pc
    /\ UNCHANGED <<fn, args, kw, mem, closureProb, applyIndices, eprob, applied, funcCalls, samples, passes,
                   drawsAfterAccept, remaining, emargin, op, result>>

\* the exit of the loop of randPatch and its return
PatchExit ==
    /\ pc = "patchloop"
    /\ ~PatchLoopCond(count, accepted)
    /\ ry' = IF ~accepted THEN 0 ELSE ry
    /\ rx' = IF ~accepted THEN 0 ELSE rx
    /\ op' = Op("patch", ry', rx', kw.ph, kw.pw)
    /\ pc' = "apply"
    /\ UNCHANGED <<fn, args, kw, mem, closureProb, applyIndices, eprob, applied, funcCalls, samples, passes,
                   drawsAfterAccept, remaining, emargin, accepted, count, result>>

\* augment._func after func returned: the transform applied to the arrays
Apply ==
    /\ pc = "apply"
    /\ applyIndices' \in IdxKw(Len(args))
    /\ result' = AugResult(op, Indices(applyIndices', Len(args)), args)
    /\ mem' = [k \in 1..Len(mem) |->
                 IF (k - 1) \in Indices(applyIndices', Len(args))
                 THEN InputAfter(op, mem[k])
                 ELSE mem[k]]
    /\ pc' = "done"
    /\ UNCHANGED <<fn, args, kw, closureProb, eprob, applied, funcCalls, samples, passes,
                   drawsAfterAccept, remaining, emargin, accepted, count, ry, rx, op>>

\* the caller makes the same call again, on its arrays as they now are and
\* with the closure as it now is; every local of the call is new
CallAgain ==
    /\ pc \in {"done", "raised"}
    /\ args' = mem
    /\ pc' = "call"
    /\ eprob' = 0
    /\ applied' = FALSE
    /\ applyIndices' = [has |-> FALSE, val |-> {}]
    /\ funcCalls' = 0
    /\ samples' = 0
    /\ passes' = 0
    /\ drawsAfterAccept' = 0
    /\ remaining' = 0
    /\ emargin' = 0
    /\ accepted' = FALSE
    /\ count' = 0
    /\ ry' = 0
    /\ rx' = 0
    /\ op' = NoOp
    /\ result' = <<>>
    /\ UNCHANGED <<fn, kw, mem, closureProb>>

Next ==
    \/ Choose
    \/ PlainSampler
    \/ CheckEnter
    \/ CheckIter
    \/ CheckExit
    \/ PatchEnter
    \/ PatchIter
    \/ PatchExit
    \/ Apply
    \/ CallAgain

Spec == Init /\ [][Next]_vars

\* ---------------------------------------------------------------- claims
\* the call of func by augment has returned a transform
Returned == pc \in {"apply", "done"} /\ applied
\* a checkSegmentMargin-wrapped sampler was called with a mask to check
Checked == fn \in Wrapped /\ kw.nonzeroIndex # -1 /\ Returned
\* the array at index nonzeroIndex
MaskArg == args[kw.nonzeroIndex + 1]
\* index k (0-based) is among the indices applyIndices names, None naming all
Named(k) == ~applyIndices.has \/ k \in applyIndices.val

\* C1: a call of a checkSegmentMargin-wrapped sampler terminates and invokes
\* the sampler at least once and at most max(1, maxCount) times: in the loop
\* the passes made and the passes left, never negative, add up to
\* max(1, maxCount), so every pass uses up one of finitely many, and on return
\* the sampler was invoked between 1 and max(1, maxCount) times.
C1_BoundedRetry ==
    fn \in Wrapped =>
        /\ samples <= Max(1, kw.maxCount)
        /\ pc = "loop" =>
              /\ remaining >= 0
              /\ samples + remaining = Max(1, kw.maxCount)
        /\ Returned => samples >= 1
C1_Witness ==
    /\ fn \in Wrapped
    /\ pc = "apply"
    /\ kw.maxCount = MaxCount
    /\ samples = MaxCount
    /\ ~accepted

\* C2: when nonzeroIndex is not -1 and every one of the max(1, maxCount)
\* sampled transforms fails the margin check, _check returns the identity
\* transform and the augment returns every input array unchanged.
C2_FallbackIdentity ==
    (Checked /\ passes = 0 /\ samples = Max(1, kw.maxCount)) =>
        /\ op = Identity
        /\ pc = "done" => result = args
C2_Witness ==
    /\ Checked
    /\ pc = "done"
    /\ passes = 0
    /\ samples = MaxCount
    /\ MaxPositive(MaskArg)

\* C3: when nonzeroIndex is not -1, the transform _check returns is the
\* identity fallback or the first sample whose result on args[nonzeroIndex],
\* cast to integer, passed zeroMargins: exactly one sample passed, none was
\* drawn after it, and the returned transform passes the check.
C3_FirstAccepted ==
    Checked =>
        \/ op = Identity
        \/ /\ passes = 1
           /\ drawsAfterAccept = 0
           /\ ZeroMargins(AsInt32(ApplyOp(op, MaskArg)), Max(1, kw.margin))
C3_Witness ==
    /\ Checked
    /\ pc = "done"
    /\ samples = 2
    /\ passes = 1
    /\ op # Identity
    /\ MaxPositive(AsInt32(ApplyOp(op, MaskArg)))

\* C4: when the probabilistic choice decides not to apply, the function
\* returns exactly its input arrays and neither func nor the sampler is
\* invoked; this happens only for a probability below 1.
C4_SkipReturnsInputs ==
    (pc = "done" /\ ~applied) =>
        /\ result = args
        /\ funcCalls = 0
        /\ samples = 0
        /\ op = NoOp
        /\ eprob < 100
C4_Witness ==
    /\ pc = "done"
    /\ ~applied
    /\ Len(args) = 2
    /\ fn \in Wrapped

\* C5: when an augment applies, func is invoked exactly once by the wrapper,
\* the result has one entry per input, and entry i is input i or the one
\* transform func returned applied to input i.
C5_OneTransformForAll ==
    (pc = "done" /\ applied) =>
        /\ funcCalls = 1
        /\ Len(result) = Len(args)
        /\ \A k \in 1..Len(args) : result[k] = args[k] \/ result[k] = ApplyOp(op, args[k])
C5_Witness ==
    /\ pc = "done"
    /\ applied
    /\ Len(args) = 2
    /\ result[1] # args[1]
    /\ result[2] # args[2]
    /\ result[1] # result[2]

\* C6 (as claimed): for an applied augment, input i is transformed if and only
\* if i is one of the indices applyIndices gives (all inputs when it is None),
\* also for an empty list.
C6_ApplyIndicesExact ==
    (pc = "done" /\ applied) =>
        \A k \in 1..Len(args) :
            result[k] = IF Named(k - 1) THEN ApplyOp(op, args[k]) ELSE args[k]

\* C7 (as claimed): with no prob keyword the probability of applying is the
\* documented default 0.5, and a prob keyword replaces it.
C7_DocumentedDefault ==
    pc # "call" =>
        eprob = IF kw.prob.has THEN kw.prob.val ELSE DocumentedDefaultProb

\* C8 (as claimed): for every call of zoom with nonzeroIndex = k and margin m,
\* the array at index k of the result has no nonzero pixel within m pixels of
\* the border.
C8_ZoomKeepsMargin ==
    (fn = "zoom" /\ pc = "done" /\ kw.nonzeroIndex # -1) =>
        ZeroMargins(result[kw.nonzeroIndex + 1], kw.margin)
\* the case of C8 that fails though the mask came in with its margin clear:
\* _check accepted a sampled zoom, the result holds the zoomed mask, and the
\* zoomed mask has a nonzero pixel within m pixels of the border, its cast to
\* int32 having none
C8_Witness ==
    /\ fn = "zoom"
    /\ pc = "done"
    /\ Checked
    /\ op # Identity
    /\ kw.margin >= 1
    /\ ZeroMargins(MaskArg, kw.margin)
    /\ result[kw.nonzeroIndex + 1] = ApplyOp(op, MaskArg)
    /\ ZeroMargins(AsInt32(result[kw.nonzeroIndex + 1]), kw.margin)
    /\ ~ZeroMargins(result[kw.nonzeroIndex + 1], kw.margin)

\* C9 (as claimed): randPatch with nonzeroIndex not -1 returns a patch whose
\* cut from the array at nonzeroIndex holds a positive pixel, whenever some
\* patch inside that array does.
C9_PatchHasForeground ==
    (/\ fn = "randPatch"
     /\ pc = "done"
     /\ applied
     /\ kw.nonzeroIndex # -1
     /\ \E y \in 0..(Height(MaskArg) - kw.ph), x \in 0..(Width(MaskArg) - kw.pw) :
            MaxPositive(Window(MaskArg, y, x, kw.ph, kw.pw)))
        => MaxPositive(ApplyOp(op, MaskArg))

\* C10 (as claimed): randPatch returns for every array it is applied to the
\* window [ry:ry+ph, rx:rx+pw] with one (ry, rx) inside the image, of shape
\* (ph, pw), whenever the inputs are at least that large, also when a
\* dimension equals the patch dimension.
C10_PatchWindow ==
    (fn = "randPatch" /\ \A k \in 1..Len(args) :
                            Height(args[k]) >= kw.ph /\ Width(args[k]) >= kw.pw) =>
        /\ pc # "raised"
        /\ (pc = "done" /\ applied) =>
              \A k \in 1..Len(args) :
                  (k - 1) \in Indices(applyIndices, Len(args)) =>
                      /\ result[k] = Window(args[k], ry, rx, kw.ph, kw.pw)
                      /\ Height(result[k]) = kw.ph
                      /\ Width(result[k]) = kw.pw
                      /\ ry + kw.ph <= Height(args[k])
                      /\ rx + kw.pw <= Width(args[k])

\* C11: no augment call modifies an input array in place or keeps state
\* between calls: at every point of every call of a sequence, the trial
\* applications of rejected transforms and the zero-filled copy of shift
\* included, the caller's arrays hold what they held when the call was made,
\* the closure of the decorator holds what the decoration put there, and a
\* call starts from new locals whatever the calls before it did.
C11_InputsAndClosureKept ==
    /\ mem = args
    /\ closureProb = DefaultProb(fn)
    /\ pc = "call" =>
          /\ eprob = 0 /\ ~applied /\ ~accepted
          /\ funcCalls = 0 /\ samples = 0 /\ passes = 0 /\ remaining = 0 /\ count = 0
          /\ ry = 0 /\ rx = 0
          /\ op = NoOp /\ result = <<>>
C11_Witness ==
    /\ fn = "shift"
    /\ Checked
    /\ pc = "done"
    /\ samples = 2
    /\ passes = 1
    /\ Named(kw.nonzeroIndex)
    /\ result[kw.nonzeroIndex + 1] # args[kw.nonzeroIndex + 1]
    /\ MaxPositive(result[kw.nonzeroIndex + 1])

====
